---- MODULE Spec2Model ----
(***************************************************************************)
(* A model of venom's execution orchestrator (src/process.go): Process,    *)
(* its parse tasks, dispatcher, suite tasks and collector, and the         *)
(* sequential runTestSuite / runTestCase / runTestStep /                   *)
(* runTestStepExecutor chain every suite task runs.                        *)
(*                                                                         *)
(* One action is one step of one goroutine between two points where it can *)
(* block or be interleaved (a channel operation, a WaitGroup operation, an *)
(* executor call).  process.go never looks inside a TestStep: a step is    *)
(* first read when runTestCase hands it to getExecutorWrap (line 228), so  *)
(* the content of a step is drawn there.                                   *)
(***************************************************************************)
EXTENDS Integers, Sequences, FiniteSets, TLC

(* ------------------------------ bounds -------------------------------- *)
\* files matched by the glob
NFiles == 2
\* largest `parallel` argument tried
MaxParallel == 2
\* cases per suite and steps per case, in the one-suite specification
MaxCases == 2
MaxSteps == 2
\* largest `retry` and `timeout` of a step
MaxRetry == 2
MaxTimeout == 2
\* entries of the `alias` argument, and characters of one entry
MaxAliases == 2
MaxAliasLen == 3

Files == 1..NFiles

(* -------------------------- values of the run ------------------------- *)
\* ExecutorResult: a nil map, or the flattened result of the call, of which
\* the model keeps result.statusCode.
NilResult == 0
Results == {200, 404}

\* Failure{Value: ...}: the message kind and the number it prints.
Failure(k, n) == [kind |-> k, n |-> n]

\* The assertions a step may declare.
ShouldEqual200 == "result.statusCode ShouldEqual 200"
Malformed == "malformed"

\* Executor types: http declares default assertions
\* (src/executors/http/executor.go:58), exec declares none, and no executor is
\* registered for unknown.
DefaultAssertions(type) == IF type = "http" THEN <<ShouldEqual200>> ELSE <<>>

\* The decoded steps of a suite file.
StepsOf(types, retries, timeouts, assertionLists) ==
    [type : types, retry : retries, delay : {1}, timeout : timeouts,
     assertions : assertionLists]

Steps ==
    StepsOf({"http", "exec"}, 0..MaxRetry, 1..MaxTimeout,
            {<<>>, <<ShouldEqual200>>, <<Malformed>>})
      \cup StepsOf({"unknown"}, {0}, {1}, {<<>>})

\* The steps of the specification that runs several suites: one attempt each,
\* no declared assertion.
PlainSteps == StepsOf({"http", "exec"}, {0}, {1}, {<<>>})

\* The steps of the specification that runs several cases: one attempt each.
SmallSteps ==
    StepsOf({"http", "exec"}, {0}, {1}, {<<>>, <<Malformed>>})
      \cup StepsOf({"unknown"}, {0}, {1}, {<<>>})

NoStep == [type |-> "none", retry |-> 0, delay |-> 0, timeout |-> 0,
           assertions |-> <<>>]

\* A parsed TestCase: the skip marker, the steps (opaque until resolved) and
\* the records of the run.
TestCase(skipped, nSteps) ==
    [Skipped |-> skipped, TestSteps |-> [k \in 1..nSteps |-> k],
     Failures |-> <<>>, Errors |-> <<>>]

CasesOf(maxSteps) ==
    {TestCase(sk, n) : sk \in {0, 1}, n \in 0..maxSteps}

SeqsUpTo(S, n) == UNION {[1..k -> S] : k \in 0..n}

\* What yaml.Unmarshal may produce for one file: the cases of the suite.
SuiteFiles == SeqsUpTo(CasesOf(MaxSteps), MaxCases)
\* Suites of no case, or of one case of one step, skipped or not.
SmallSuiteFiles == {<<>>, <<TestCase(0, 1)>>, <<TestCase(1, 1)>>}
\* Suites of one case that is run.
StepSuiteFiles == {<<TestCase(0, n)>> : n \in 1..MaxSteps}

NoCase == TestCase(0, 0)
NoSuite == [Package |-> 0, TestCases |-> <<>>, Total |-> 0, Failures |-> 0,
            Errors |-> 0, Skipped |-> 0]

(* ------------------------------ aliases ------------------------------- *)
\* A string is the sequence of its characters; ':' is the only character
\* Process looks for.
Chars == {"a", ":"}
AliasStrings == SeqsUpTo(Chars, MaxAliasLen)
\* The values of the `alias` argument.
AliasLists == SeqsUpTo(AliasStrings, MaxAliases)

\* The index of the first character c of s at or after i (0: none).
RECURSIVE IndexFrom(_, _, _)
IndexFrom(s, c, i) ==
    IF i > Len(s) THEN 0
    ELSE IF s[i] = c THEN i
    ELSE IndexFrom(s, c, i + 1)

\* strings.Split(s, c): the texts between the occurrences of c (one token, s
\* itself, when there is none).
RECURSIVE Split(_, _)
Split(s, c) ==
    LET i == IndexFrom(s, c, 1) IN
    IF i = 0 THEN <<s>>
    ELSE <<SubSeq(s, 1, i - 1)>> \o Split(SubSeq(s, i + 1, Len(s)), c)

\* strings.Join(t, sep).
RECURSIVE Join(_, _)
Join(t, sep) ==
    IF t = <<>> THEN <<>>
    ELSE IF Len(t) = 1 THEN t[1]
    ELSE t[1] \o sep \o Join(Tail(t), sep)

\* The map `aliases`, made empty and then written with m[k] = v.
NoAliases == [k \in {} |-> <<>>]
Put(m, k, v) == [x \in DOMAIN m \cup {k} |-> IF x = k THEN v ELSE m[x]]

\* The body of the loop over `alias` for the entry a.
AliasEntry(m, a) ==
    LET t == Split(a, ":") IN
    IF Len(t) < 2 THEN m ELSE Put(m, t[1], Join(Tail(t), <<>>))

VARIABLES
    alias,       \* the `alias` argument
    aliases,     \* the package variable `aliases`
    ai,          \* the index of the loop over alias
    parallel,    \* the `parallel` argument
    filesPath,   \* the files the glob matched
    pcMain,      \* where Process is: "alias", "prepare", "wait", "returned"
    wgPrepare,   \* sync.WaitGroup counters
    wg,
    parsed,      \* per file: "todo", "failed", "ok"
    chanToRun,   \* buffered channels, as the sequence of buffered values
    parallels,
    chanEnd,
    tss,         \* the collector's state
    tr,
    pc,          \* per suite task: its position
    ts,          \* per suite task: its TestSuite
    ci,          \* runTestSuite's loop index i
    tc,          \* runTestSuite's loop copy tc
    si,          \* runTestCase's loop index
    step,        \* the step runTestCase resolved
    retry,       \* runTestStep's locals
    isOK,
    errors,
    failures,
    helper,      \* the helper goroutine of the latest runTestStepExecutor call
    hist         \* history of the suite task, for the properties

orchVars == <<alias, aliases, ai, parallel, filesPath, pcMain, wgPrepare, wg, parsed, chanToRun,
              parallels, chanEnd, tss, tr>>
taskVars == <<pc, ts, ci, tc, si, step, retry, isOK, errors, failures,
              helper, hist>>
vars == <<alias, aliases, ai, parallel, filesPath, pcMain, wgPrepare, wg, parsed, chanToRun,
          parallels, chanEnd, tss, tr, pc, ts, ci, tc, si, step, retry, isOK,
          errors, failures, helper, hist>>

\* A helper goroutine: "running" (in executor.Run), "sendErr" (at
\* `cherr <- err`) or "sendRes" (at `ch <- result`), with what Run returned.
\* A helper is followed until the next call starts or runTestStep returns:
\* nothing reads it after its call has returned.
NoHelper == [st |-> "none", result |-> NilResult, err |-> "nil"]
\* A helper whose call has returned, at st.
Blocked(st) == [st |-> st, result |-> NilResult, err |-> "nil"]
\* The history kept per suite task:
\*   entered, resolved, invoked  the cases handed to runTestCase, the steps
\*                               handed to getExecutorWrap, the steps whose
\*                               executor was called;
\* of the current (or last) call of runTestStep in the current case:
\*   base      the lengths of tc.Failures and tc.Errors when it was entered;
\*   calls     its calls of runTestStepExecutor;
\*   checks    its calls of applyChecks;
\*   okAt      the value of calls at its first OK check (0: none yet);
\*   slept     the loop indexes whose attempt followed a time.Sleep;
\*   returned  it has returned;
\*   synthetic the number its synthetic Failure named (0: none appended);
\*   evalErrors, evalFailures  what applyChecks returned, over its attempts;
\* and of its last attempt:
\*   pre       the lengths of tc.Failures and tc.Errors when it started;
\*   outcome   "none" (running), "error", "timeout" or "checked";
\*   produced, handed  what executor.Run returned and what applyChecks got.
NoStepHist == [base |-> <<0, 0>>, calls |-> 0, checks |-> 0, okAt |-> 0,
               slept |-> {}, returned |-> FALSE, synthetic |-> 0,
               evalErrors |-> <<>>, evalFailures |-> <<>>,
               pre |-> <<0, 0>>, outcome |-> "none", produced |-> NilResult,
               handed |-> NilResult]
NoHist == [entered |-> {}, resolved |-> {}, invoked |-> {}, s |-> NoStepHist]

InitWith(aliasSet, nFilesSet, parallelSet) ==
    /\ alias \in aliasSet
    /\ aliases = NoAliases
    /\ ai = 1
    /\ parallel \in parallelSet
    /\ \E n \in nFilesSet : filesPath = 1..n
    /\ pcMain = "alias"
    /\ wgPrepare = Cardinality(filesPath)
    /\ wg = Cardinality(filesPath)
    /\ parsed = [f \in Files |-> "todo"]
    /\ chanToRun = <<>>
    /\ parallels = <<>>
    /\ chanEnd = <<>>
    /\ tss = <<>>
    /\ tr = [TotalOK |-> 0, TotalKO |-> 0, TotalSkipped |-> 0, Total |-> 0]
    /\ pc = [f \in Files |-> "none"]
    /\ ts = [f \in Files |-> NoSuite]
    /\ ci = [f \in Files |-> 0]
    /\ tc = [f \in Files |-> NoCase]
    /\ si = [f \in Files |-> 0]
    /\ step = [f \in Files |-> NoStep]
    /\ retry = [f \in Files |-> 0]
    /\ isOK = [f \in Files |-> FALSE]
    /\ errors = [f \in Files |-> <<>>]
    /\ failures = [f \in Files |-> <<>>]
    /\ helper = [f \in Files |-> NoHelper]
    /\ hist = [f \in Files |-> NoHist]


(* ----------------------- Process: alias parsing ----------------------- *)
\* One iteration of the loop over alias; after the last one Process goes on to
\* the glob and starts the collector and the parse tasks.
AliasStep ==
    /\ pcMain = "alias"
    /\ IF ai <= Len(alias)
       THEN /\ aliases' = AliasEntry(aliases, alias[ai])
            /\ ai' = ai + 1
            /\ UNCHANGED pcMain
       ELSE /\ pcMain' = "prepare"
            /\ UNCHANGED <<aliases, ai>>
    /\ UNCHANGED <<alias, parallel, filesPath, wgPrepare, wg, parsed, chanToRun,
                   parallels, chanEnd, tss, tr>>
    /\ UNCHANGED taskVars

(* ------------------------ Process: parse phase ------------------------ *)
CountSkipped(cases) == Cardinality({k \in 1..Len(cases) : cases[k].Skipped = 1})

\* The TestSuite a parse task builds from the decoded cases of file f.
ParsedSuite(f, cases) ==
    [Package |-> f, TestCases |-> cases, Total |-> Len(cases), Failures |-> 0,
     Errors |-> 0, Skipped |-> CountSkipped(cases)]

\* ioutil.ReadFile or yaml.Unmarshal fails: the task gives up both counters.
ParseFailKeepsWg(f) ==
    /\ pcMain = "prepare"
    /\ f \in filesPath
    /\ parsed[f] = "todo"
    /\ parsed' = [parsed EXCEPT ![f] = "failed"]
    /\ wgPrepare' = wgPrepare - 1
    /\ UNCHANGED <<alias, aliases, ai, parallel, filesPath, pcMain, wg,
                   chanToRun, parallels, chanEnd, tss, tr>>
    /\ UNCHANGED taskVars
ParseFail(f) ==
    /\ pcMain = "prepare"
    /\ f \in filesPath
    /\ parsed[f] = "todo"
    /\ parsed' = [parsed EXCEPT ![f] = "failed"]
    /\ wgPrepare' = wgPrepare - 1
    /\ wg' = wg - 1
    /\ UNCHANGED <<alias, aliases, ai, parallel, filesPath, pcMain, chanToRun, parallels, chanEnd,
                   tss, tr>>
    /\ UNCHANGED taskVars

\* The file decodes: the suite is queued (chanToRun holds len(filesPath)+1
\* values, so the send never blocks) and the task is done preparing.
ParseOK(f, suiteFiles) ==
    /\ pcMain = "prepare"
    /\ f \in filesPath
    /\ parsed[f] = "todo"
    /\ \E cases \in suiteFiles :
          chanToRun' = Append(chanToRun, ParsedSuite(f, cases))
    /\ parsed' = [parsed EXCEPT ![f] = "ok"]
    /\ wgPrepare' = wgPrepare - 1
    /\ UNCHANGED <<alias, aliases, ai, parallel, filesPath, pcMain, wg, parallels, chanEnd, tss, tr>>
    /\ UNCHANGED taskVars

\* wgPrepare.Wait() returns; Process starts the dispatcher and waits on wg.
PrepareDone ==
    /\ pcMain = "prepare"
    /\ wgPrepare = 0
    /\ pcMain' = "wait"
    /\ UNCHANGED <<alias, aliases, ai, parallel, filesPath, wgPrepare, wg, parsed, chanToRun,
                   parallels, chanEnd, tss, tr>>
    /\ UNCHANGED taskVars

(* ------------------------- Process: run phase ------------------------- *)
\* A send on a buffered channel of capacity cap can proceed.
CanSendUnbounded(ch, cap) == TRUE
CanSend(ch, cap) == Len(ch) < cap

\* The dispatcher goroutine exists: Process is past wgPrepare.Wait().
DispatcherStartedAlways == TRUE
DispatcherStarted == pcMain \notin {"alias", "prepare"}

\* The dispatcher takes the next suite and starts its task.
Dispatch ==
    /\ DispatcherStarted
    /\ chanToRun # <<>>
    /\ LET t == Head(chanToRun) IN
          /\ ts' = [ts EXCEPT ![t.Package] = t]
          /\ pc' = [pc EXCEPT ![t.Package] = "gate"]
    /\ chanToRun' = Tail(chanToRun)
    /\ UNCHANGED <<alias, aliases, ai, parallel, filesPath, pcMain, wgPrepare, wg, parsed,
                   parallels, chanEnd, tss, tr>>
    /\ UNCHANGED <<ci, tc, si, step, retry, isOK, errors, failures, helper,
                   hist>>

\* What a slot of `parallels` holds: the suite sent is never read back (the
\* deferred receive drops it), so the model keeps a marker.
Slot == "ts"

\* parallels <- ts: the task takes a slot and enters runTestSuite.
Admit(f) ==
    /\ pc[f] = "gate"
    /\ CanSend(parallels, parallel)
    /\ parallels' = Append(parallels, Slot)
    /\ pc' = [pc EXCEPT ![f] = "suite"]
    /\ ci' = [ci EXCEPT ![f] = 1]
    /\ UNCHANGED <<alias, aliases, ai, parallel, filesPath, pcMain, wgPrepare, wg, parsed,
                   chanToRun, chanEnd, tss, tr>>
    /\ UNCHANGED <<ts, tc, si, step, retry, isOK, errors, failures, helper,
                   hist>>

\* chanEnd <- ts, after runTestSuite has returned.
SendEnd(f) ==
    /\ pc[f] = "end"
    /\ CanSend(chanEnd, 1)
    /\ chanEnd' = Append(chanEnd, ts[f])
    /\ pc' = [pc EXCEPT ![f] = "release"]
    /\ UNCHANGED <<alias, aliases, ai, parallel, filesPath, pcMain, wgPrepare, wg, parsed,
                   chanToRun, parallels, tss, tr>>
    /\ UNCHANGED <<ts, ci, tc, si, step, retry, isOK, errors, failures, helper,
                   hist>>

\* The deferred <-parallels: the task gives a slot back and ends.
Release(f) ==
    /\ pc[f] = "release"
    /\ parallels # <<>>
    /\ parallels' = Tail(parallels)
    /\ pc' = [pc EXCEPT ![f] = "done"]
    /\ UNCHANGED <<alias, aliases, ai, parallel, filesPath, pcMain, wgPrepare, wg, parsed,
                   chanToRun, chanEnd, tss, tr>>
    /\ UNCHANGED <<ts, ci, tc, si, step, retry, isOK, errors, failures, helper,
                   hist>>

(* ------------------------------ collector ----------------------------- *)
\* tr.Total as the collector recomputes it.
TotalOfNoSkipped(r) == r.TotalKO + r.TotalOK
TotalOf(r) == r.TotalKO + r.TotalOK + r.TotalSkipped

\* One iteration of the collector's loop on the completed suite t.
FoldRunCasesOnly(r, t) ==
    LET ko == IF t.Failures > 0 THEN r.TotalKO + t.Failures ELSE r.TotalKO
        ok == IF t.Failures > 0 THEN r.TotalOK
              ELSE r.TotalOK + (Len(t.TestCases) - t.Skipped)
        sk == IF t.Skipped > 0 THEN r.TotalSkipped + t.Skipped
              ELSE r.TotalSkipped
        r1 == [TotalOK |-> ok, TotalKO |-> ko, TotalSkipped |-> sk,
               Total |-> r.Total]
    IN  [r1 EXCEPT !.Total = TotalOf(r1)]
Fold(r, t) ==
    LET ko == IF t.Failures > 0 THEN r.TotalKO + t.Failures ELSE r.TotalKO
        ok == IF t.Failures > 0 THEN r.TotalOK
              ELSE r.TotalOK + (Len(t.TestCases) - t.Failures)
        sk == IF t.Skipped > 0 THEN r.TotalSkipped + t.Skipped
              ELSE r.TotalSkipped
        r1 == [TotalOK |-> ok, TotalKO |-> ko, TotalSkipped |-> sk,
               Total |-> r.Total]
    IN  [r1 EXCEPT !.Total = TotalOf(r1)]

Collect ==
    /\ chanEnd # <<>>
    /\ tss' = Append(tss, Head(chanEnd))
    /\ tr' = Fold(tr, Head(chanEnd))
    /\ chanEnd' = Tail(chanEnd)
    /\ wg' = wg - 1
    /\ UNCHANGED <<alias, aliases, ai, parallel, filesPath, pcMain, wgPrepare, parsed, chanToRun,
                   parallels>>
    /\ UNCHANGED taskVars

\* wg.Wait() returns and Process returns tr with tr.TestSuites = tss.
Return ==
    /\ pcMain = "wait"
    /\ wg = 0
    /\ pcMain' = "returned"
    /\ UNCHANGED <<alias, aliases, ai, parallel, filesPath, wgPrepare, wg, parsed, chanToRun,
                   parallels, chanEnd, tss, tr>>
    /\ UNCHANGED taskVars


(* ---------------------------- runTestSuite ---------------------------- *)
\* The case c is handed to runTestCase.
RunsCaseAlways(c) == TRUE
RunsCase(c) == c.Skipped = 0

\* The head of runTestSuite's loop over the cases: a case that is not skipped
\* is copied to tc and handed to runTestCase; a skipped one goes straight to
\* the counting; after the last case runTestSuite returns.
SuiteLoop(f) ==
    /\ pc[f] = "suite"
    /\ IF ci[f] <= Len(ts[f].TestCases)
       THEN LET c == ts[f].TestCases[ci[f]] IN
            /\ tc' = [tc EXCEPT ![f] = c]
            /\ IF RunsCase(c)
               THEN /\ pc' = [pc EXCEPT ![f] = "case"]
                    /\ si' = [si EXCEPT ![f] = 1]
                    /\ hist' = [hist EXCEPT ![f].entered = @ \cup {ci[f]},
                                            ![f].s = NoStepHist]
               ELSE /\ pc' = [pc EXCEPT ![f] = "caseEnd"]
                    /\ hist' = [hist EXCEPT ![f].s = NoStepHist]
                    /\ UNCHANGED si
            \* the locals of the calls that have returned are cleared
            /\ step' = [step EXCEPT ![f] = NoStep]
            /\ retry' = [retry EXCEPT ![f] = 0]
            /\ isOK' = [isOK EXCEPT ![f] = FALSE]
            /\ errors' = [errors EXCEPT ![f] = <<>>]
            /\ failures' = [failures EXCEPT ![f] = <<>>]
       ELSE /\ pc' = [pc EXCEPT ![f] = "end"]
            /\ UNCHANGED <<tc, si, hist, step, retry, isOK, errors, failures>>
    /\ UNCHANGED orchVars
    /\ UNCHANGED <<ts, ci, helper>>

\* The suite's counters after one case (the write-back of a case that ran,
\* then the three sums).
Counted(t, i, c) ==
    LET t1 == IF RunsCase(c) THEN [t EXCEPT !.TestCases[i] = c] ELSE t
        t2 == IF Len(c.Failures) > 0
              THEN [t1 EXCEPT !.Failures = @ + Len(c.Failures)] ELSE t1
        t3 == IF Len(c.Errors) > 0
              THEN [t2 EXCEPT !.Errors = @ + Len(c.Errors)] ELSE t2
    IN  IF c.Skipped > 0 THEN [t3 EXCEPT !.Skipped = @ + c.Skipped] ELSE t3

CaseEnd(f) ==
    /\ pc[f] = "caseEnd"
    /\ ts' = [ts EXCEPT ![f] = Counted(ts[f], ci[f], tc[f])]
    /\ ci' = [ci EXCEPT ![f] = @ + 1]
    /\ pc' = [pc EXCEPT ![f] = "suite"]
    /\ UNCHANGED orchVars
    /\ UNCHANGED <<tc, si, step, retry, isOK, errors, failures, helper,
                   hist>>

(* ----------------------------- runTestCase ---------------------------- *)
\* getExecutorWrap fails for a step whose type has no registered executor.
Resolvable(st) == st.type # "unknown"

\* The head of runTestCase's loop over the steps: the step is resolved; a
\* resolution error is recorded and ends the case; otherwise runTestStep is
\* entered with its locals zeroed.
CaseLoop(f, steps) ==
    /\ pc[f] = "case"
    /\ IF si[f] <= Len(tc[f].TestSteps)
       THEN \E st \in steps :
            /\ step' = [step EXCEPT ![f] = st]
            /\ IF Resolvable(st)
               THEN /\ pc' = [pc EXCEPT ![f] = "step"]
                    /\ retry' = [retry EXCEPT ![f] = 0]
                    /\ isOK' = [isOK EXCEPT ![f] = FALSE]
                    /\ errors' = [errors EXCEPT ![f] = <<>>]
                    /\ failures' = [failures EXCEPT ![f] = <<>>]
                    /\ hist' = [hist EXCEPT
                          ![f].resolved = @ \cup {<<ci[f], si[f]>>},
                          ![f].s = [NoStepHist EXCEPT !.base =
                                <<Len(tc[f].Failures), Len(tc[f].Errors)>>]]
                    /\ UNCHANGED tc
               ELSE /\ tc' = [tc EXCEPT
                          ![f].Errors = Append(@, Failure("resolve", 0))]
                    /\ pc' = [pc EXCEPT ![f] = "caseEnd"]
                    /\ hist' = [hist EXCEPT
                          ![f].resolved = @ \cup {<<ci[f], si[f]>>},
                          ![f].s = NoStepHist]
                    /\ UNCHANGED <<retry, isOK, errors, failures>>
       ELSE /\ pc' = [pc EXCEPT ![f] = "caseEnd"]
            /\ UNCHANGED <<tc, step, retry, isOK, errors, failures, hist>>
    /\ UNCHANGED orchVars
    /\ UNCHANGED <<ts, ci, si, helper>>

\* runTestCase leaves its loop after a step when the case holds a Failure.
StopCaseNever(c) == FALSE
StopCase(c) == Len(c.Failures) > 0

(* ----------------------------- runTestStep ---------------------------- *)
\* The condition of the retry loop.
LoopCondOneMore(r, st, ok) == r <= st.retry + 1 /\ ~ok
LoopCond(r, st, ok) == r <= st.retry /\ ~ok

\* time.Sleep(delay) precedes the attempt.
SleepBeforeEveryRetry(r, ok) == r > 0 /\ ~ok
SleepBefore(r, ok) == r > 1 /\ ~ok

\* The head of the retry loop: another attempt starts (runTestStepExecutor
\* spawns the helper goroutine and waits in its select), or the loop ends.
StepLoop(f) ==
    /\ pc[f] = "step"
    /\ IF LoopCond(retry[f], step[f], isOK[f])
       THEN /\ helper' = [helper EXCEPT ![f] =
                            [st |-> "running", result |-> NilResult, err |-> "nil"]]
            /\ pc' = [pc EXCEPT ![f] = "select"]
            /\ hist' = [hist EXCEPT
                  ![f].invoked = @ \cup {<<ci[f], si[f]>>},
                  ![f].s.calls = @ + 1,
                  ![f].s.slept = IF SleepBefore(retry[f], isOK[f])
                                 THEN @ \cup {retry[f]} ELSE @,
                  ![f].s.outcome = "none",
                  ![f].s.produced = NilResult, ![f].s.handed = NilResult,
                  ![f].s.pre = <<Len(tc[f].Failures), Len(tc[f].Errors)>>]
       ELSE /\ pc' = [pc EXCEPT ![f] = "stepEnd"]
            /\ hist' = [hist EXCEPT ![f].s.outcome = "none",
                  ![f].s.produced = NilResult, ![f].s.handed = NilResult]
            /\ UNCHANGED helper
    /\ UNCHANGED orchVars
    /\ UNCHANGED <<ts, ci, tc, si, step, retry, isOK, errors, failures>>

\* What executor.Run may come back with: a result and no error, or an error.
RunOutcomes(results) ==
    {[result |-> r, err |-> "nil"] : r \in results}
      \cup {[result |-> NilResult, err |-> "fault"]}

\* The helper's executor.Run returns; the helper goes on to `cherr <- err`.
ExecutorRun(f, results) ==
    /\ pc[f] = "select"
    /\ helper[f].st = "running"
    /\ \E o \in RunOutcomes(results) :
          helper' = [helper EXCEPT ![f] =
                        [st |-> "sendErr", result |-> o.result, err |-> o.err]]
    /\ UNCHANGED orchVars
    /\ UNCHANGED <<pc, ts, ci, tc, si, step, retry, isOK, errors, failures,
                   hist>>

\* The same in a helper whose call has already timed out: it goes on to
\* `cherr <- err`, which nobody receives any more (what it holds is not kept).
LateRun(f) ==
    /\ pc[f] # "select"
    /\ helper[f].st = "running"
    /\ helper' = [helper EXCEPT ![f] = Blocked("sendErr")]
    /\ UNCHANGED orchVars
    /\ UNCHANGED <<pc, ts, ci, tc, si, step, retry, isOK, errors, failures,
                   hist>>

\* The Check Evaluator on one assertion.
CheckError(a, result) == a = Malformed
CheckFailure(a, result) == a = ShouldEqual200 /\ result # 200

\* applyChecks: the step's assertions, or the executor's default ones when the
\* step declares none; OK when no assertion gave an Error or a Failure.
applyChecks(result, st, defaults) ==
    LET as == IF st.assertions = <<>> THEN defaults ELSE st.assertions
        es == SelectSeq(as, LAMBDA a : CheckError(a, result))
        fs == SelectSeq(as, LAMBDA a : CheckFailure(a, result))
        errs == [k \in 1..Len(es) |-> Failure("check", 0)]
        fails == [k \in 1..Len(fs) |-> Failure("assert", 200)]
    IN  [isOK |-> errs = <<>> /\ fails = <<>>, errors |-> errs,
         failures |-> fails]

\* runTestStepExecutor's return when its select receives from cherr.
FromCherr(h) == [result |-> NilResult, err |-> h.err]

\* runTestStepExecutor's return when ctx.Done() fires.
FromDeadline(st) == [result |-> NilResult, err |-> Failure("timeout", st.timeout)]

\* runTestStep records an attempt whose call came back with an error.
RecordCallError(c, msg) == [c EXCEPT !.Failures = Append(@, msg)]

\* The select of runTestStepExecutor receives the helper's error value, the
\* helper moves on to `ch <- result`, which nobody receives, and runTestStep
\* runs the rest of the loop body: an error is recorded and the loop goes on;
\* otherwise the returned result is checked, and the loop is left if it is OK.
SelectCherr(f) ==
    /\ pc[f] = "select"
    /\ helper[f].st = "sendErr"
    /\ helper' = [helper EXCEPT ![f] = Blocked("sendRes")]
    /\ LET ret == FromCherr(helper[f]) IN
       IF ret.err # "nil"
       THEN /\ tc' = [tc EXCEPT ![f] = RecordCallError(@, Failure("exec", 0))]
            /\ retry' = [retry EXCEPT ![f] = @ + 1]
            /\ pc' = [pc EXCEPT ![f] = "step"]
            /\ hist' = [hist EXCEPT ![f].s.outcome = "error"]
            /\ UNCHANGED <<isOK, errors, failures>>
       ELSE LET chk == applyChecks(ret.result, step[f],
                                   DefaultAssertions(step[f].type)) IN
            /\ isOK' = [isOK EXCEPT ![f] = chk.isOK]
            /\ errors' = [errors EXCEPT ![f] = chk.errors]
            /\ failures' = [failures EXCEPT ![f] = chk.failures]
            /\ hist' = [hist EXCEPT
                  ![f].s.outcome = "checked",
                  ![f].s.produced = helper[f].result,
                  ![f].s.handed = ret.result,
                  ![f].s.checks = @ + 1,
                  ![f].s.evalErrors = @ \o chk.errors,
                  ![f].s.evalFailures = @ \o chk.failures,
                  ![f].s.okAt = IF chk.isOK /\ @ = 0 THEN hist[f].s.calls ELSE @]
            /\ IF chk.isOK
               THEN /\ pc' = [pc EXCEPT ![f] = "stepEnd"]
                    /\ UNCHANGED retry
               ELSE /\ pc' = [pc EXCEPT ![f] = "step"]
                    /\ retry' = [retry EXCEPT ![f] = @ + 1]
            /\ UNCHANGED tc
    /\ UNCHANGED orchVars
    /\ UNCHANGED <<ts, ci, si, step>>

\* The deadline fires first: the call returns the timeout error and leaves
\* its helper behind; runTestStep records the error and the loop goes on.
SelectTimeoutNever(f) == FALSE /\ UNCHANGED vars
SelectTimeout(f) ==
    /\ pc[f] = "select"
    /\ helper' = [helper EXCEPT ![f] = Blocked(helper[f].st)]
    /\ tc' = [tc EXCEPT ![f] = RecordCallError(@, FromDeadline(step[f]).err)]
    /\ retry' = [retry EXCEPT ![f] = @ + 1]
    /\ pc' = [pc EXCEPT ![f] = "step"]
    /\ hist' = [hist EXCEPT ![f].s.outcome = "timeout"]
    /\ UNCHANGED orchVars
    /\ UNCHANGED <<ts, ci, si, step, isOK, errors, failures>>

\* The synthetic "It's a failure after %d attempt(s)" is due.
SyntheticDue(r, es, fs) == r > 0 /\ (Len(fs) > 0 \/ Len(es) > 0)

\* The case after runTestStep's loop: the last check's Errors and Failures
\* are appended, then the synthetic Failure when it is due.
StepRecorded(c, r, es, fs) ==
    LET c1 == [c EXCEPT !.Errors = @ \o es, !.Failures = @ \o fs]
    IN  IF SyntheticDue(r, es, fs)
        THEN [c1 EXCEPT !.Failures = Append(@, Failure("attempts", r))]
        ELSE c1

\* runTestStep returns, and runTestCase stops the case or goes to the next
\* step.  The helper of the step's last call is followed no further.
StepEnd(f) ==
    /\ pc[f] = "stepEnd"
    /\ helper' = [helper EXCEPT ![f] = NoHelper]
    /\ LET c == StepRecorded(tc[f], retry[f], errors[f], failures[f]) IN
       /\ tc' = [tc EXCEPT ![f] = c]
       /\ hist' = [hist EXCEPT
             ![f].s.outcome = "none",
             ![f].s.produced = NilResult, ![f].s.handed = NilResult,
             ![f].s.returned = TRUE,
             ![f].s.synthetic =
                 IF Len(c.Failures) > Len(tc[f].Failures) + Len(failures[f])
                 THEN c.Failures[Len(c.Failures)].n ELSE 0]
       /\ IF StopCase(c)
          THEN /\ pc' = [pc EXCEPT ![f] = "caseEnd"]
               /\ UNCHANGED si
          ELSE /\ pc' = [pc EXCEPT ![f] = "case"]
               /\ si' = [si EXCEPT ![f] = @ + 1]
    /\ UNCHANGED orchVars
    /\ UNCHANGED <<ts, ci, step, retry, isOK, errors, failures>>

(* --------------------------- specifications --------------------------- *)
\* The steps of one suite task.
Task(f, steps, results) ==
    \/ Admit(f)
    \/ SuiteLoop(f)
    \/ CaseLoop(f, steps)
    \/ StepLoop(f)
    \/ ExecutorRun(f, results)
    \/ LateRun(f)
    \/ SelectCherr(f)
    \/ SelectTimeout(f)
    \/ StepEnd(f)
    \/ CaseEnd(f)
    \/ SendEnd(f)
    \/ Release(f)

NextWith(suiteFiles, steps, results) ==
    \/ AliasStep
    \/ \E f \in Files : ParseFail(f)
    \/ \E f \in Files : ParseOK(f, suiteFiles)
    \/ PrepareDone
    \/ Dispatch
    \/ \E f \in Files : Task(f, steps, results)
    \/ Collect
    \/ Return

\* Several small suites, run with parallel in 1..MaxParallel.
Init == InitWith({<<>>}, 0..NFiles, 1..MaxParallel)
Next == NextWith(SmallSuiteFiles, PlainSteps, {200})
Spec == Init /\ [][Next]_vars

\* One suite of up to MaxCases cases of up to MaxSteps one-attempt steps.
InitSuite == InitWith({<<>>}, {1}, {1})
NextSuite == NextWith(SuiteFiles, SmallSteps, {200})
SpecSuite == InitSuite /\ [][NextSuite]_vars

\* One suite of one case, with the full range of steps.
NextStep == NextWith(StepSuiteFiles, Steps, Results)
SpecStep == InitSuite /\ [][NextStep]_vars

\* The loop over alias alone, for every alias argument within the bounds.
InitAlias == InitWith(AliasLists, {0}, {1})
NextAlias == AliasStep
SpecAlias == InitAlias /\ [][NextAlias]_vars


\* Spec with the fairness the Go runtime gives: a goroutine that can take its
\* next step does so, a parse task ends one way or the other, and a deadline
\* that has been set fires.  Nothing makes executor.Run return (ExecutorRun
\* and LateRun are not fair): an executor may hang for ever.
TaskFairness(f) ==
    /\ WF_vars(ParseFail(f) \/ ParseOK(f, SmallSuiteFiles))
    /\ WF_vars(Admit(f))
    /\ WF_vars(SuiteLoop(f))
    /\ WF_vars(CaseLoop(f, PlainSteps))
    /\ WF_vars(StepLoop(f))
    /\ WF_vars(SelectCherr(f))
    /\ WF_vars(SelectTimeout(f))
    /\ WF_vars(StepEnd(f))
    /\ WF_vars(CaseEnd(f))
    /\ WF_vars(SendEnd(f))
    /\ WF_vars(Release(f))

FairSpec ==
    /\ Spec
    /\ WF_vars(AliasStep)
    /\ WF_vars(PrepareDone)
    /\ WF_vars(Dispatch)
    /\ WF_vars(Collect)
    /\ WF_vars(Return)
    /\ \A f \in Files : TaskFairness(f)

(* ------------------------------- claims ------------------------------- *)
RECURSIVE SumSeq(_)
\* The sum of a sequence of numbers.
SumSeq(q) == IF q = <<>> THEN 0 ELSE Head(q) + SumSeq(Tail(q))

Last(q) == q[Len(q)]

\* The task of f holds a slot: it has passed `parallels <- ts` and has not yet
\* run its deferred `<-parallels`.
Admitted(f) ==
    pc[f] \in {"suite", "case", "step", "select", "stepEnd", "caseEnd", "end",
               "release"}

\* runTestSuite has returned in the task of f.
SuiteRan(f) == pc[f] \in {"end", "release", "done"}

\* C1: at most `parallel` suite tasks are between the gate and their release
\* at any time, and the slots taken are exactly those of these tasks: a task
\* that has ended, whatever its suite's outcome, holds none.
C1_ParallelismBound ==
    /\ Cardinality({f \in Files : Admitted(f)}) <= parallel
    /\ Len(parallels) = Cardinality({f \in Files : Admitted(f)})

\* With one slot, a suite that failed has ended and another one is running.
C1_Witness ==
    /\ parallel = 1
    /\ \E f, g \in Files :
          /\ pc[f] = "done"
          /\ ts[f].Failures > 0
          /\ Admitted(g)
          /\ pc[g] # "release"

\* C2: runTestStep is entered only while the case holds no Failure and no
\* Error, so once a step has appended one no later step of the case is
\* resolved or invoked; and when runTestSuite returns, every case that is not
\* skipped has been handed to runTestCase.
C2_StopOnFirstFailure ==
    \A f \in Files :
       /\ pc[f] \in {"step", "select", "stepEnd"} => hist[f].s.base = <<0, 0>>
       /\ \A p \in hist[f].resolved \ hist[f].invoked :
             \A q \in hist[f].resolved : ~(q[1] = p[1] /\ q[2] > p[2])
       /\ SuiteRan(f) =>
             hist[f].entered =
                {k \in 1..Len(ts[f].TestCases) : ts[f].TestCases[k].Skipped = 0}

\* The first step of the first case left only an Error (a check error and the
\* synthetic Failure), its second step was never resolved, and the second case
\* ran.
C2_Witness ==
    \E f \in Files :
       /\ SuiteRan(f)
       /\ Len(ts[f].TestCases) = 2
       /\ Len(ts[f].TestCases[1].TestSteps) = 2
       /\ Len(ts[f].TestCases[1].Errors) = 1
       /\ <<1, 1>> \in hist[f].invoked
       /\ <<1, 2>> \notin hist[f].resolved
       /\ <<2, 1>> \in hist[f].invoked

\* C3: a call of runTestStep calls the executor at most retry+1 times and not
\* again after its first OK check; once its loop is left without an OK check
\* it has called it exactly retry+1 times; a synthetic Failure names retry+1
\* attempts, and there is one whenever a check was made and none was OK.
C3_RetryBound ==
    \A f \in Files :
       LET h == hist[f].s
           left == pc[f] = "stepEnd" \/ h.returned
       IN  /\ h.calls <= step[f].retry + 1
           /\ h.okAt # 0 => h.calls = h.okAt
           /\ (left /\ h.okAt = 0) => h.calls = step[f].retry + 1
           /\ h.synthetic # 0 =>
                 /\ h.synthetic = step[f].retry + 1
                 /\ Last(tc[f].Failures) = Failure("attempts", step[f].retry + 1)
           /\ (h.returned /\ h.okAt = 0 /\ h.checks > 0) => h.synthetic # 0

\* A step with retry = MaxRetry was checked MaxRetry+1 times, never OK.
C3_Witness ==
    \E f \in Files :
       /\ hist[f].s.returned
       /\ step[f].retry = MaxRetry
       /\ hist[f].s.checks = MaxRetry + 1
       /\ hist[f].s.okAt = 0
       /\ hist[f].s.synthetic = MaxRetry + 1

\* C4: the synthetic Failure is appended only when the executor was called at
\* least twice for the step, and a step with retry = 0 whose one attempt fails
\* one assertion leaves one Failure in the case and in the suite.
C4_SyntheticOnlyAfterRetry ==
    \A f \in Files :
       LET h == hist[f].s
           oneFailed == /\ h.returned
                        /\ step[f].retry = 0
                        /\ h.checks = 1
                        /\ Len(failures[f]) = 1
                        /\ errors[f] = <<>>
       IN  /\ h.synthetic # 0 => h.calls >= 2
           /\ (oneFailed /\ si[f] = 1) => Len(tc[f].Failures) = 1
           /\ (oneFailed /\ SuiteRan(f) /\ Len(ts[f].TestCases) = 1
                 /\ si[f] = 1) => ts[f].Failures = 1

\* C5: the result handed to applyChecks is the one executor.Run returned for
\* that attempt.
C5_HandedIsProduced ==
    \A f \in Files :
       hist[f].s.outcome = "checked" => hist[f].s.handed = hist[f].s.produced

\* C6: every call of runTestStepExecutor returns, and Process returns.
C6_BoundedLatency ==
    /\ \A f \in Files : (pc[f] = "select") ~> (pc[f] # "select")
    /\ <>(pcMain = "returned")

\* Process has returned a suite in which a call timed out.
C6_Witness ==
    /\ pcMain = "returned"
    /\ \E k \in 1..Len(tss) :
          /\ tss[k].TestCases # <<>>
          /\ \E j \in 1..Len(tss[k].TestCases[1].Failures) :
                tss[k].TestCases[1].Failures[j].kind = "timeout"

\* C7: an attempt whose call errored or timed out has appended one record to
\* the case's Errors and none to its Failures, and the record of a timeout
\* names the step's timeout.
C7_CallErrorIsError ==
    \A f \in Files :
       LET h == hist[f].s IN
       h.outcome \in {"error", "timeout"} =>
          /\ Len(tc[f].Errors) = h.pre[2] + 1
          /\ Len(tc[f].Failures) = h.pre[1]
          /\ h.outcome = "timeout" =>
                Last(tc[f].Errors) = Failure("timeout", step[f].timeout)

\* C8: the aggregate's Total is the sum of its three counters.
C8_TotalIsSum == tr.Total = tr.TotalOK + tr.TotalKO + tr.TotalSkipped

\* Process has returned an aggregate whose three counters are all positive.
C8_Witness ==
    /\ pcMain = "returned"
    /\ tr.TotalOK > 0
    /\ tr.TotalKO > 0
    /\ tr.TotalSkipped > 0

\* C9: the aggregate Process returns has Total equal to the sum of the case
\* counts of the collected suites.
C9_TotalIsCaseCount ==
    pcMain = "returned" => tr.Total = SumSeq([k \in 1..Len(tss) |-> tss[k].Total])

\* C10: for the suites collected so far, TotalOK is the sum of
\* len(TestCases) - Failures and TotalKO the sum of Failures.
C10_OKCountsEverySuite ==
    /\ tr.TotalOK =
          SumSeq([k \in 1..Len(tss) |-> Len(tss[k].TestCases) - tss[k].Failures])
    /\ tr.TotalKO = SumSeq([k \in 1..Len(tss) |-> tss[k].Failures])

\* No case of the suite t holds a Failure or an Error.
Clean(t) ==
    \A k \in 1..Len(t.TestCases) :
       t.TestCases[k].Failures = <<>> /\ t.TestCases[k].Errors = <<>>

\* C11: when the collector folds a suite in which no case holds a Failure or
\* an Error, TotalOK grows by the number of its cases and TotalKO stays.
C11_CleanSuiteIsOK ==
    [][(chanEnd # <<>> /\ tss' = Append(tss, Head(chanEnd)) /\ Clean(Head(chanEnd)))
          => /\ tr'.TotalOK = tr.TotalOK + Len(Head(chanEnd).TestCases)
             /\ tr'.TotalKO = tr.TotalKO]_vars

\* A clean suite of one case was folded after a suite that holds a Failure.
C11_Witness ==
    /\ Len(tss) = 2
    /\ ~Clean(tss[1])
    /\ Clean(tss[2])
    /\ Len(tss[2].TestCases) = 1
    /\ tr.TotalOK = 1
    /\ tr.TotalKO > 0

\* The entries of alias the loop has been through that contain a ':', and the
\* text of an entry before and after its first ':'.
Keyed == {i \in 1..(ai - 1) : IndexFrom(alias[i], ":", 1) # 0}
Before(a) == SubSeq(a, 1, IndexFrom(a, ":", 1) - 1)
After(a) == SubSeq(a, IndexFrom(a, ":", 1) + 1, Len(a))

\* C12: the keys stored are the texts before the first ':' of the entries
\* that contain one, and the value stored under a key is the text after the
\* first ':' of the last such entry; entries without ':' add nothing.
C12_AliasParsing ==
    /\ DOMAIN aliases = {Before(alias[i]) : i \in Keyed}
    /\ \A i \in Keyed :
          (\A j \in Keyed : j > i => Before(alias[j]) # Before(alias[i]))
             => aliases[Before(alias[i])] = After(alias[i])

\* The entries of the returned TestSuites that are the suite of file f.
EntriesOf(f) == {k \in 1..Len(tss) : tss[k].Package = f}

\* C13: Process returns, and when it has returned every file has been through
\* its parse task, every suite that was parsed has been run and folded
\* exactly once, as runTestSuite left it, and no file that failed has an entry.
C13_Completion ==
    /\ <>(pcMain = "returned")
    /\ [](pcMain = "returned" =>
            /\ chanToRun = <<>> /\ chanEnd = <<>>
            /\ \A f \in filesPath :
                  /\ parsed[f] # "todo"
                  /\ parsed[f] = "ok" =>
                        /\ SuiteRan(f)
                        /\ Cardinality(EntriesOf(f)) = 1
                        /\ \A k \in EntriesOf(f) : tss[k] = ts[f]
                  /\ parsed[f] = "failed" => EntriesOf(f) = {}
            /\ Len(tss) = Cardinality({f \in filesPath : parsed[f] = "ok"}))

\* Process has returned one suite, which ran a case, of two files.
C13_Witness ==
    /\ pcMain = "returned"
    /\ \E f, g \in filesPath :
          /\ parsed[f] = "failed"
          /\ parsed[g] = "ok"
          /\ hist[g].invoked # {}
    /\ Len(tss) = 1

\* The records of kind k among those q holds after its first n.
Added(q, n, k) ==
    SelectSeq(SubSeq(q, n + 1, Len(q)), LAMBDA x : x.kind = k)

\* C14: when runTestStep has returned, the Errors and the Failures that
\* applyChecks returned for its attempts, all of them and in attempt order,
\* are what the call appended to the case's Errors and, among the records of
\* failed assertions, to its Failures.
C14_AccumulatesEveryAttempt ==
    \A f \in Files :
       LET h == hist[f].s IN
       h.returned =>
          /\ Added(tc[f].Errors, h.base[2], "check") = h.evalErrors
          /\ Added(tc[f].Failures, h.base[1], "assert") = h.evalFailures

\* Some case of the suite t holds an Error and none holds a Failure.
ErrorsOnly(t) ==
    /\ \E k \in 1..Len(t.TestCases) : t.TestCases[k].Errors # <<>>
    /\ \A k \in 1..Len(t.TestCases) : t.TestCases[k].Failures = <<>>

\* C15: once the one suite of the run has been folded, if some case of it
\* holds an Error and none a Failure then TotalKO is positive and TotalOK is
\* less than the number of its cases.
C15_ErrorsRolledUp ==
    (Len(tss) = 1 /\ ErrorsOnly(tss[1])) =>
       /\ tr.TotalKO > 0
       /\ tr.TotalOK < Len(tss[1].TestCases)

\* C16: while a parse task has not finished, no suite has been taken from
\* chanToRun and no task has entered runTestSuite.
C16_ParseBarrier ==
    (\E f \in filesPath : parsed[f] = "todo") =>
       /\ \A g \in Files : pc[g] = "none"
       /\ Len(chanToRun) = Cardinality({g \in filesPath : parsed[g] = "ok"})

\* A suite is in runTestSuite in a run of two files of which the other one
\* failed to parse.
C16_Witness ==
    \E f, g \in filesPath :
       /\ parsed[f] = "failed"
       /\ parsed[g] = "ok"
       /\ pc[g] \in {"suite", "case", "step", "select", "stepEnd", "caseEnd"}

\* C17: a case that carries the skip marker is never handed to runTestCase,
\* none of its steps is resolved or invoked, and it holds no Failure and no
\* Error, as when it was parsed.
C17_SkippedNeverRun ==
    \A f \in Files :
       \A k \in 1..Len(ts[f].TestCases) :
          ts[f].TestCases[k].Skipped # 0 =>
             /\ k \notin hist[f].entered
             /\ \A p \in hist[f].resolved \cup hist[f].invoked : p[1] # k
             /\ ts[f].TestCases[k].Failures = <<>>
             /\ ts[f].TestCases[k].Errors = <<>>
             /\ (ci[f] = k /\ pc[f] = "caseEnd") => tc[f] = ts[f].TestCases[k]

\* runTestSuite has returned for a suite whose first case, of two steps, is
\* skipped and whose second case ran and holds a Failure.
C17_Witness ==
    \E f \in Files :
       /\ SuiteRan(f)
       /\ Len(ts[f].TestCases) = 2
       /\ ts[f].TestCases[1].Skipped = 1
       /\ Len(ts[f].TestCases[1].TestSteps) = 2
       /\ <<2, 1>> \in hist[f].invoked
       /\ ts[f].TestCases[2].Failures # <<>>

\* C18: of the attempts of a call of runTestStep, those that followed a sleep
\* are those of loop index 2 or more (the attempts made so far have the loop
\* indexes 0 .. calls-1).
C18_DelayFromSecondRetry ==
    \A f \in Files :
       hist[f].s.slept = {r \in 0..(hist[f].s.calls - 1) : r >= 2}

\* A step was attempted three times and only the third attempt followed a
\* sleep.
C18_Witness ==
    \E f \in Files :
       /\ hist[f].s.calls = 3
       /\ hist[f].s.slept = {2}

\* C19: once runTestSuite has returned, the suite's Skipped is the number of
\* its cases that carry the skip marker, and TotalSkipped is that number
\* summed over the suites folded so far.
C19_SkippedCounts ==
    /\ \A f \in Files :
          SuiteRan(f) => ts[f].Skipped = CountSkipped(ts[f].TestCases)
    /\ tr.TotalSkipped =
          SumSeq([k \in 1..Len(tss) |-> CountSkipped(tss[k].TestCases)])

\* The helper of f's latest call is at one of its two sends: executor.Run has
\* returned in it and it has not ended.
HelperAtSend(f) == helper[f].st \in {"sendErr", "sendRes"}

\* C20: a helper in which executor.Run has returned is at a send only while
\* its call of runTestStepExecutor is in its select.  (ch and cherr are
\* unbuffered and local to the call, and the select is their only receiver:
\* a helper at a send after the call has returned stays there for ever.)
C20_NoHelperLeak ==
    \A f \in Files : HelperAtSend(f) => pc[f] = "select"

====
